---- MODULE Spec2Model ----
(***************************************************************************)
(* necessary-metrics: the attribute macro that turns a module of           *)
(* 'fn name(labels..) -> Counter|Gauge|Histogram;' declarations into       *)
(* accessor and description functions.                                     *)
(*                                                                         *)
(* Three specifications share this module:                                 *)
(*   SpecAttrs  the attribute scan of parse_attrs, one loop iteration per  *)
(*              step, over bounded attribute lists;                        *)
(*   SpecFn     one declaration: ItemFn::parse, then expand_metric_fn;     *)
(*   Spec       one macro call: Mod::parse declaration by declaration,     *)
(*              then expand_from_parsed.                                   *)
(***************************************************************************)
EXTENDS Integers, Sequences, FiniteSets, TLC

VARIABLES
    pc,            \* position of the running call
    attrs,         \* SpecAttrs: the Vec<Attribute> handed to parse_attrs
    scanned,       \* SpecAttrs: attributes the for loop has gone past
    acc,           \* SpecAttrs: the locals cfg, doc, description, unit, unit_attr
    attrs_result,  \* SpecAttrs: what parse_attrs returned (None while running)
    decl,          \* SpecFn: the source text of one declaration
    item_fn,       \* SpecFn: what ItemFn::parse returned (None while running)
    fn_tokens,     \* SpecFn: the functions expand_metric_fn returned
    item,          \* Spec: the source text of the annotated module
    consumed,      \* Spec: declarations the while loop has taken from 'content'
    fns,           \* Spec: the local Vec<ItemFn> of Mod::parse
    ret            \* Spec: what necessary_metrics returned (None while running)

vars == <<pc, attrs, scanned, acc, attrs_result, decl, item_fn, fn_tokens,
          item, consumed, fns, ret>>

----------------------------------------------------------------------------
(* Option<T> and Result<T, syn::Error> *)

None == <<>>

Some(x) == <<x>>

is_some(o) == o # <<>>

is_none(o) == o = <<>>

\* a span locates tokens of the macro input: the declaration (0 while a
\* declaration is parsed on its own), the part of it, and the attribute's place
Span(part, k) == [fn |-> 0, part |-> part, k |-> k]

Ok(v) == [ok |-> TRUE, v |-> v, msg |-> "", span |-> Span("", 0)]

\* common::error: an Err carrying the message and the span of 'spanned'
error(spanned, m) == [ok |-> FALSE, v |-> None, msg |-> m, span |-> spanned]

\* Result::ok: Ok(v) becomes Some(v), an Err is discarded
result_ok(r) == IF r.ok THEN Some(r.v) ELSE None

\* the messages, with the source's backquotes written as apostrophes
FN_ATTR_ERROR == "Only '#[cfg]' and '#[doc]' are allowed on functions"

METRIC_KIND_ERROR == "Only 'Counter', 'Gauge', and 'Histogram' (verbatim, no qualified paths) are allowed as return types on functions"

DESCRIPTION_SET_ERROR == "Metric description has already been set"

UNIT_SET_ERROR == "Metric unit has already been set"

UNIT_WITHOUT_DESCRIPTION_ERROR == "Cannot set metric unit without setting metric description"

\* the error of syn's Meta::require_name_value (the ? of read_attr_meta_name_value)
NAME_VALUE_ERROR == "expected a value for this attribute"

\* the error of a token the parser did not expect (input.parse()?)
SYNTAX_ERROR == "unexpected token"

----------------------------------------------------------------------------
(* Attributes.  An attribute is its path, the form of its meta              *)
(* (#[p], #[p(..)], #[p = expr]) and, for the last form, the                *)
(* expression: a string literal or any other expression.                    *)

Attr(path, form, lit, text) == [path |-> path, form |-> form, lit |-> lit, text |-> text]

\* syn's Path::is_ident: a single segment equal to 'name'
is_ident(attr, name) == attr.path = <<name>>

\* Meta::require_name_value, then the string of a string literal
read_attr_meta_name_value(attr, k) ==
    IF attr.form # "NameValue" THEN error(Span("attr", k), NAME_VALUE_ERROR)
    ELSE IF attr.lit = "Str" THEN Ok(Some(attr.text))
    ELSE Ok(None)

\* Meta::require_name_value, then the expression after the equals sign
read_attr_expr(attr, k) ==
    IF attr.form # "NameValue" THEN error(Span("attr", k), NAME_VALUE_ERROR)
    ELSE Ok([lit |-> attr.lit, text |-> attr.text])

\* the locals of parse_attrs before the loop
attrs_init == [cfg |-> <<>>, doc |-> "", description |-> None, unit |-> None,
               unit_attr |-> None]

on_cfg(st, attr, k) == Ok([st EXCEPT !.cfg = Append(@, attr)])

on_doc_lastWins(st, attr, k) ==
    LET r == read_attr_meta_name_value(attr, k)
    IN  IF ~r.ok THEN r
        ELSE IF is_some(r.v) THEN Ok([st EXCEPT !.doc = r.v[1]])
        ELSE Ok(st)

on_doc(st, attr, k) ==
    LET r == read_attr_meta_name_value(attr, k)
    IN  IF ~r.ok THEN r
        ELSE IF is_some(r.v) THEN Ok([st EXCEPT !.doc = @ \o r.v[1]])
        ELSE Ok(st)

on_description(st, attr, k) ==
    IF is_some(st.description) THEN error(Span("attr", k), DESCRIPTION_SET_ERROR)
    ELSE Ok([st EXCEPT !.description = result_ok(read_attr_expr(attr, k))])

on_unit(st, attr, k) ==
    IF is_some(st.unit) THEN error(Span("attr", k), UNIT_SET_ERROR)
    ELSE Ok([st EXCEPT !.unit_attr = Some(k),
                       !.unit = result_ok(read_attr_expr(attr, k))])

on_other_skip(st, attr, k) == Ok(st)

on_other(st, attr, k) == error(Span("attr", k), FN_ATTR_ERROR)

\* one iteration of 'for attr in attrs'; k is the attribute's place in the
\* list, which is what its span locates
scan_attr(st, attr, k) ==
    IF is_ident(attr, "cfg") THEN on_cfg(st, attr, k)
    ELSE IF is_ident(attr, "doc") THEN on_doc(st, attr, k)
    ELSE IF is_ident(attr, "description") THEN on_description(st, attr, k)
    ELSE IF is_ident(attr, "unit") THEN on_unit(st, attr, k)
    ELSE on_other(st, attr, k)

\* what follows the loop: the unit-requires-description check and the FnAttrs
post_scan(st) ==
    IF is_some(st.unit) /\ is_none(st.description)
    THEN error(Span("attr", st.unit_attr[1]), UNIT_WITHOUT_DESCRIPTION_ERROR)
    ELSE Ok([cfg |-> st.cfg, doc |-> st.doc, description |-> st.description,
             unit |-> st.unit])

RECURSIVE scan_from(_, _, _)
scan_from(as, k, st) ==
    IF k > Len(as) THEN post_scan(st)
    ELSE LET r == scan_attr(st, as[k], k)
         IN  IF r.ok THEN scan_from(as, k + 1, r.v) ELSE r

\* parse_attrs as a whole
parse_attrs(as) == scan_from(as, 1, attrs_init)

----------------------------------------------------------------------------
(* Declarations.  A declaration's source is its attributes, visibility,    *)
(* name, parameters, whether the arrow and the semicolon are there, and    *)
(* the type after the arrow.  A type is a path (leading colons, segments,  *)
(* generic arguments on the last segment) or any other type.               *)

TypePath(colon, segs, generic) ==
    [kind |-> "Path", leading_colon |-> colon, segments |-> segs,
     arguments |-> generic, text |-> ""]

TypeOther(text) ==
    [kind |-> "Other", leading_colon |-> FALSE, segments |-> <<>>,
     arguments |-> FALSE, text |-> text]

\* syn's Path::require_ident: no leading colon, one segment, no arguments
require_ident(ty) ==
    IF ~ty.leading_colon /\ Len(ty.segments) = 1 /\ ~ty.arguments
    THEN Ok(ty.segments[1])
    ELSE error(Span("ty", 0), "expected this path to be an identifier")

kind_of_ident_lastSegment(ty) ==
    LET name == ty.segments[Len(ty.segments)]
    IN  IF name = "Counter" THEN Ok("Counter")
        ELSE IF name = "Gauge" THEN Ok("Gauge")
        ELSE IF name = "Histogram" THEN Ok("Histogram")
        ELSE error(Span("ty", 0), METRIC_KIND_ERROR)

\* the Type::Path arm: require_ident, then the match on the identifier
kind_of_ident(ty) ==
    LET ident == require_ident(ty)
    IN  IF ~ident.ok THEN error(Span("ty", 0), METRIC_KIND_ERROR)
        ELSE IF ident.v = "Counter" THEN Ok("Counter")
        ELSE IF ident.v = "Gauge" THEN Ok("Gauge")
        ELSE IF ident.v = "Histogram" THEN Ok("Histogram")
        ELSE error(Span("ty", 0), METRIC_KIND_ERROR)

\* impl Parse for FnReturnTy
FnReturnTy_parse(ty) ==
    IF ty.kind = "Path" THEN kind_of_ident(ty)
    ELSE error(Span("ty", 0), METRIC_KIND_ERROR)

\* impl Parse for FnArg
FnArg_parse(arg) == [ident |-> arg.ident, colon_token |-> ":", ty |-> arg.ty]

\* impl Parse for ItemFn: the attributes, then the signature token by token;
\* the first failure returns
ItemFn_parse(d) ==
    LET a == parse_attrs(d.attrs)
    IN  IF ~a.ok THEN a
        ELSE IF ~d.arrow THEN error(Span("arrow", 0), SYNTAX_ERROR)
        ELSE LET ty == FnReturnTy_parse(d.ty)
             IN  IF ~ty.ok THEN ty
                 ELSE IF ~d.semi THEN error(Span("semi", 0), SYNTAX_ERROR)
                 ELSE Ok([attrs |-> a.v, vis |-> d.vis, fn_token |-> "fn",
                          ident |-> d.ident,
                          args |-> [i \in 1..Len(d.args) |-> FnArg_parse(d.args[i])],
                          arrow_token |-> "->", fn_return_ty |-> ty.v])

----------------------------------------------------------------------------
(* Generated code.  Tokens are identifiers, string literals, punctuation   *)
(* and interpolated expressions; a function is its doc attribute, cfg      *)
(* attributes, visibility, name, parameters, return type and statements.   *)

Ident(x) == [tok |-> "ident", text |-> x]

LitStr(x) == [tok |-> "str", text |-> x]

Punct(x) == [tok |-> "punct", text |-> x]

\* an Expr interpolated by quote!
ExprTokens(e) == [tok |-> IF e.lit = "Str" THEN "str" ELSE "expr", text |-> e.text]

LetStmt(name, elems) ==
    [stmt |-> "let", name |-> name, elems |-> elems, tokens |-> <<>>]

MacroStmt(path, tokens) ==
    [stmt |-> "macro", name |-> path, elems |-> <<>>, tokens |-> tokens]

\* impl ToTokens for FnReturnTy
FnReturnTy_to_tokens(kind) ==
    CASE kind = "Counter" -> "::metrics::Counter"
      [] kind = "Gauge" -> "::metrics::Gauge"
      [] kind = "Histogram" -> "::metrics::Histogram"

\* fn_args: each parameter as name, colon, type
fn_args(args) ==
    [i \in 1..Len(args) |-> <<Ident(args[i].ident), Punct(args[i].colon_token), args[i].ty>>]

label_emission_reversed(args) ==
    [i \in 1..Len(args) |->
        [key |-> LitStr(args[Len(args) + 1 - i].ident),
         value |-> <<Ident(args[Len(args) + 1 - i].ident), Punct("."), Ident("to_string"),
                     Punct("("), Punct(")")>>]]

\* label_emission: one (name as string, name.to_string()) pair per parameter
label_emission(args) ==
    [i \in 1..Len(args) |->
        [key |-> LitStr(args[i].ident),
         value |-> <<Ident(args[i].ident), Punct("."), Ident("to_string"),
                     Punct("("), Punct(")")>>]]

labels_ref_always(label_cnt) == <<Punct("&"), Ident("labels")>>

labels_ref(label_cnt) ==
    IF label_cnt > 0 THEN <<Punct("&"), Ident("labels")>> ELSE <<>>

labels_binding(label_cnt, emission) ==
    IF label_cnt > 0 THEN <<LetStmt("labels", emission)>> ELSE <<>>

metric_emission(fn_return_ty, metric_name, ref) ==
    CASE fn_return_ty = "Counter" ->
            MacroStmt("::metrics::counter", <<LitStr(metric_name), Punct(",")>> \o ref)
      [] fn_return_ty = "Gauge" ->
            MacroStmt("::metrics::gauge", <<LitStr(metric_name), Punct(",")>> \o ref)
      [] fn_return_ty = "Histogram" ->
            MacroStmt("::metrics::histogram", <<LitStr(metric_name), Punct(",")>> \o ref)

description_stmt_unitLast(unit, description, fn_return_ty, metric_name) ==
    LET path == CASE fn_return_ty = "Counter" -> "::metrics::describe_counter"
                  [] fn_return_ty = "Gauge" -> "::metrics::describe_gauge"
                  [] fn_return_ty = "Histogram" -> "::metrics::describe_histogram"
    IN  IF is_some(unit)
        THEN MacroStmt(path, <<LitStr(metric_name), Punct(","), ExprTokens(description),
                               Punct(","), ExprTokens(unit[1])>>)
        ELSE MacroStmt(path, <<LitStr(metric_name), Punct(","), ExprTokens(description)>>)

description_stmt(unit, description, fn_return_ty, metric_name) ==
    IF is_some(unit)
    THEN CASE fn_return_ty = "Counter" ->
                MacroStmt("::metrics::describe_counter",
                          <<LitStr(metric_name), Punct(","), ExprTokens(unit[1]),
                            Punct(","), ExprTokens(description)>>)
           [] fn_return_ty = "Gauge" ->
                MacroStmt("::metrics::describe_gauge",
                          <<LitStr(metric_name), Punct(","), ExprTokens(unit[1]),
                            Punct(","), ExprTokens(description)>>)
           [] fn_return_ty = "Histogram" ->
                MacroStmt("::metrics::describe_histogram",
                          <<LitStr(metric_name), Punct(","), ExprTokens(unit[1]),
                            Punct(","), ExprTokens(description)>>)
    ELSE CASE fn_return_ty = "Counter" ->
                MacroStmt("::metrics::describe_counter",
                          <<LitStr(metric_name), Punct(","), ExprTokens(description)>>)
           [] fn_return_ty = "Gauge" ->
                MacroStmt("::metrics::describe_gauge",
                          <<LitStr(metric_name), Punct(","), ExprTokens(description)>>)
           [] fn_return_ty = "Histogram" ->
                MacroStmt("::metrics::describe_histogram",
                          <<LitStr(metric_name), Punct(","), ExprTokens(description)>>)

description_fn_always(fn_) ==
    LET metric_name == fn_.ident
        d == IF is_some(fn_.attrs.description) THEN fn_.attrs.description[1]
             ELSE [lit |-> "Str", text |-> ""]
    IN  << [doc |-> "Describes the metric '" \o metric_name \o "'.",
            cfg |-> fn_.attrs.cfg, vis |-> fn_.vis, fn_token |-> fn_.fn_token,
            ident |-> "describe_" \o metric_name, inputs |-> <<>>,
            output |-> None,
            body |-> <<description_stmt(fn_.attrs.unit, d, fn_.fn_return_ty, metric_name)>>] >>

\* description_fn: the describe_ function when there is a description,
\* nothing otherwise
description_fn(fn_) ==
    LET metric_name == fn_.ident
    IN  IF is_some(fn_.attrs.description)
        THEN << [doc |-> "Describes the metric '" \o metric_name \o "'.",
                 cfg |-> fn_.attrs.cfg, vis |-> fn_.vis, fn_token |-> fn_.fn_token,
                 ident |-> "describe_" \o metric_name, inputs |-> <<>>,
                 output |-> None,
                 body |-> <<description_stmt(fn_.attrs.unit, fn_.attrs.description[1],
                                             fn_.fn_return_ty, metric_name)>>] >>
        ELSE <<>>

\* the accessor of the final quote!
accessor_fn(fn_) ==
    LET label_cnt == Len(fn_.args)
        metric_name == fn_.ident
    IN  [doc |-> fn_.attrs.doc, cfg |-> fn_.attrs.cfg, vis |-> fn_.vis,
         fn_token |-> fn_.fn_token, ident |-> fn_.ident, inputs |-> fn_args(fn_.args),
         output |-> Some(FnReturnTy_to_tokens(fn_.fn_return_ty)),
         body |-> labels_binding(label_cnt, label_emission(fn_.args))
                  \o <<metric_emission(fn_.fn_return_ty, metric_name, labels_ref(label_cnt))>>]

\* expand_metric_fn: the accessor, then the description function if any
expand_metric_fn(fn_) == <<accessor_fn(fn_)>> \o description_fn(fn_)

----------------------------------------------------------------------------
(* The module: Mod::parse, necessary_metrics and expand_from_parsed *)

\* the span of a failure inside the declaration at place n of the module body
located(r, n) == [r EXCEPT !.span.fn = n]

\* parse_macro_input!: a parse error is returned as compile_error! tokens
compile_error(e) == [compile_error |-> Some([msg |-> e.msg, span |-> e.span]),
                     block |-> None]

tokens(b) == [compile_error |-> None, block |-> Some(b)]

RECURSIVE concat(_, _)
concat(ss, k) == IF k > Len(ss) THEN <<>> ELSE ss[k] \o concat(ss, k + 1)

metric_fns_reversed(fs) ==
    concat([i \in 1..Len(fs) |-> expand_metric_fn(fs[Len(fs) + 1 - i])], 1)

\* fns.into_iter().map(expand_metric_fn), interpolated one after the other
metric_fns(fs) == concat([i \in 1..Len(fs) |-> expand_metric_fn(fs[i])], 1)

expand_from_parsed(mod_) ==
    [attrs |-> mod_.attrs, vis |-> mod_.vis, mod_token |-> mod_.mod_token,
     ident |-> mod_.ident, items |-> metric_fns(mod_.fns)]

----------------------------------------------------------------------------
(* Inputs of SpecAttrs *)

MaxAttrs == 3

CfgAttr == Attr(<<"cfg">>, "List", "None", "test")

AttrPool ==
    { CfgAttr,
      Attr(<<"doc">>, "NameValue", "Str", " a"),
      Attr(<<"doc">>, "NameValue", "Str", "b"),
      Attr(<<"doc">>, "NameValue", "Other", "1"),
      Attr(<<"doc">>, "List", "None", "hidden"),
      Attr(<<"description">>, "NameValue", "Str", "d1"),
      Attr(<<"description">>, "NameValue", "Other", "d2.trim()"),
      Attr(<<"description">>, "Path", "None", ""),
      Attr(<<"description">>, "List", "None", "d3"),
      Attr(<<"unit">>, "NameValue", "Other", "Unit::Count"),
      Attr(<<"unit">>, "NameValue", "Other", "Unit::Seconds"),
      Attr(<<"unit">>, "Path", "None", ""),
      Attr(<<"inline">>, "Path", "None", ""),
      Attr(<<"m", "unit">>, "NameValue", "Other", "Unit::Count") }

SeqsUpTo(S, n) == UNION { [1..m -> S] : m \in 0..n }

InitAttrs ==
    /\ pc = "scan"
    /\ attrs \in SeqsUpTo(AttrPool, MaxAttrs)
    /\ scanned = 0 /\ acc = attrs_init /\ attrs_result = None
    /\ decl = None /\ item_fn = None /\ fn_tokens = <<>>
    /\ item = None /\ consumed = 0 /\ fns = <<>> /\ ret = None

\* the body of the for loop, for the next attribute
AttrsScan ==
    /\ pc = "scan" /\ scanned < Len(attrs)
    /\ LET r == scan_attr(acc, attrs[scanned + 1], scanned + 1)
       IN  IF r.ok
           THEN /\ acc' = r.v /\ scanned' = scanned + 1
                /\ UNCHANGED <<pc, attrs_result>>
           ELSE /\ attrs_result' = Some(r) /\ pc' = "done"
                /\ UNCHANGED <<acc, scanned>>
    /\ UNCHANGED <<attrs, decl, item_fn, fn_tokens, item, consumed, fns, ret>>

\* the loop is over: the post-scan check and the return
AttrsFinish ==
    /\ pc = "scan" /\ scanned = Len(attrs)
    /\ attrs_result' = Some(post_scan(acc)) /\ pc' = "done"
    /\ UNCHANGED <<attrs, scanned, acc, decl, item_fn, fn_tokens, item,
                   consumed, fns, ret>>

NextAttrs == AttrsScan \/ AttrsFinish

SpecAttrs == InitAttrs /\ [][NextAttrs]_vars

----------------------------------------------------------------------------
(* SpecFn: one declaration through ItemFn::parse and expand_metric_fn *)

MaxFnAttrs == 2

MaxArgs == 2

FnAttrPool ==
    { CfgAttr,
      Attr(<<"doc">>, "NameValue", "Str", " a"),
      Attr(<<"doc">>, "NameValue", "Str", "b"),
      Attr(<<"doc">>, "NameValue", "Other", "1"),
      Attr(<<"description">>, "NameValue", "Str", "d1"),
      Attr(<<"unit">>, "NameValue", "Other", "Unit::Count"),
      Attr(<<"inline">>, "Path", "None", "") }

ArgPool == { [ident |-> "a", ty |-> "&str"], [ident |-> "b", ty |-> "u64"] }

TypePool ==
    { TypePath(FALSE, <<"Counter">>, FALSE),
      TypePath(FALSE, <<"Gauge">>, FALSE),
      TypePath(FALSE, <<"Histogram">>, FALSE),
      TypePath(FALSE, <<"metrics", "Counter">>, FALSE),
      TypePath(TRUE, <<"Gauge">>, FALSE),
      TypePath(FALSE, <<"Histogram">>, TRUE),
      TypePath(FALSE, <<"counter">>, FALSE),
      TypeOther("&Counter"),
      TypeOther("(Gauge)") }

Decl(as, vis, ident, args, arrow, ty, semi) ==
    [attrs |-> as, vis |-> vis, ident |-> ident, args |-> args, arrow |-> arrow,
     ty |-> ty, semi |-> semi]

InitFn ==
    /\ pc = "parse_fn"
    /\ \E as \in SeqsUpTo(FnAttrPool, MaxFnAttrs), vis \in {"pub", ""},
          ident \in {"m", "describe_m"}, args \in SeqsUpTo(ArgPool, MaxArgs),
          shape \in {<<TRUE, TRUE>>, <<FALSE, TRUE>>, <<TRUE, FALSE>>}, ty \in TypePool :
          decl = Some(Decl(as, vis, ident, args, shape[1], ty, shape[2]))
    /\ item_fn = None /\ fn_tokens = <<>>
    /\ attrs = <<>> /\ scanned = 0 /\ acc = attrs_init /\ attrs_result = None
    /\ item = None /\ consumed = 0 /\ fns = <<>> /\ ret = None

\* content.parse::<ItemFn>() on the declaration
ParseItemFn ==
    /\ pc = "parse_fn"
    /\ item_fn' = Some(ItemFn_parse(decl[1]))
    /\ pc' = IF item_fn'[1].ok THEN "expand_fn" ELSE "done"
    /\ UNCHANGED <<attrs, scanned, acc, attrs_result, decl, fn_tokens, item,
                   consumed, fns, ret>>

\* expand_metric_fn on the parsed declaration
ExpandMetricFn ==
    /\ pc = "expand_fn"
    /\ fn_tokens' = expand_metric_fn(item_fn[1].v)
    /\ pc' = "done"
    /\ UNCHANGED <<attrs, scanned, acc, attrs_result, decl, item_fn, item,
                   consumed, fns, ret>>

NextFn == ParseItemFn \/ ExpandMetricFn

SpecFn == InitFn /\ [][NextFn]_vars

----------------------------------------------------------------------------
(* Spec: one call of the macro on a module *)

MaxFns == 2

ModHeaders ==
    { [attrs |-> <<>>, vis |-> "", ident |-> "empty"],
      [attrs |-> <<Attr(<<"allow">>, "List", "None", "unused")>>, vis |-> "pub",
       ident |-> "metrics"] }

ModDecls ==
    { Decl(as, "pub", ident, <<[ident |-> "a", ty |-> "&str"]>>, TRUE, ty, TRUE) :
        as \in { <<>>,
                 <<Attr(<<"description">>, "NameValue", "Str", "d1")>>,
                 <<Attr(<<"unit">>, "NameValue", "Other", "Unit::Count")>> },
        ident \in {"m", "describe_m"},
        ty \in { TypePath(FALSE, <<"Counter">>, FALSE),
                 TypePath(FALSE, <<"Histogram">>, FALSE),
                 TypePath(FALSE, <<"metrics", "Counter">>, FALSE) } }

Init ==
    /\ pc = "parse_mod"
    /\ \E h \in ModHeaders, content \in SeqsUpTo(ModDecls, MaxFns) :
          item = Some([attrs |-> h.attrs, vis |-> h.vis, ident |-> h.ident,
                       content |-> content])
    /\ consumed = 0 /\ fns = <<>> /\ ret = None
    /\ attrs = <<>> /\ scanned = 0 /\ acc = attrs_init /\ attrs_result = None
    /\ decl = None /\ item_fn = None /\ fn_tokens = <<>>

ParseFn_keepGoing ==
    /\ pc = "parse_mod" /\ consumed < Len(item[1].content)
    /\ LET r == located(ItemFn_parse(item[1].content[consumed + 1]), consumed + 1)
       IN  IF r.ok
           THEN fns' = Append(fns, r.v) /\ UNCHANGED ret
           ELSE ret' = Some(compile_error(r)) /\ UNCHANGED fns
    /\ consumed' = consumed + 1
    /\ pc' = IF consumed' = Len(item[1].content) /\ is_some(ret') THEN "done" ELSE pc
    /\ UNCHANGED <<attrs, scanned, acc, attrs_result, decl, item_fn, fn_tokens, item>>

\* one turn of 'while !content.is_empty()': the next declaration is parsed and
\* pushed, or its error leaves Mod::parse and the macro returns it
ParseFn ==
    /\ pc = "parse_mod" /\ consumed < Len(item[1].content)
    /\ LET r == located(ItemFn_parse(item[1].content[consumed + 1]), consumed + 1)
       IN  IF r.ok
           THEN fns' = Append(fns, r.v) /\ UNCHANGED <<pc, ret>>
           ELSE ret' = Some(compile_error(r)) /\ pc' = "done" /\ UNCHANGED fns
    /\ consumed' = consumed + 1
    /\ UNCHANGED <<attrs, scanned, acc, attrs_result, decl, item_fn, fn_tokens, item>>

\* the body is empty: Mod::parse returns the Mod and the macro returns
\* expand_from_parsed of it
ExpandFromParsed ==
    /\ pc = "parse_mod" /\ consumed = Len(item[1].content)
    /\ ret' = Some(tokens(expand_from_parsed(
                    [attrs |-> item[1].attrs, vis |-> item[1].vis, mod_token |-> "mod",
                     ident |-> item[1].ident, fns |-> fns])))
    /\ pc' = "done"
    /\ UNCHANGED <<attrs, scanned, acc, attrs_result, decl, item_fn, fn_tokens, item,
                   consumed, fns>>

Next == ParseFn \/ ExpandFromParsed

Spec == Init /\ [][Next]_vars

----------------------------------------------------------------------------
(* Properties of the attribute scan (SpecAttrs) *)

\* r is the error with message m located at attribute k
FailsAt(r, k, m) == ~r.ok /\ r.msg = m /\ r.span = Span("attr", k)

\* the attribute is named n: its path is the single identifier n
Named(a, n) == a.path = <<n>>

HasNamed(as, n) == \E k \in 1..Len(as) : Named(as[k], n)

\* the attribute at k is named n and so is an earlier one
LaterNamed(as, k, n) == Named(as[k], n) /\ \E j \in 1..(k - 1) : Named(as[j], n)

Unrecognized(a) == \A n \in {"cfg", "doc", "description", "unit"} : ~Named(a, n)

\* the scan stopped with an error at attribute scanned + 1
StoppedAt(k) == pc = "done" /\ scanned < Len(attrs) /\ k = scanned + 1

\* C1: scanning left to right, the first attribute named description (unit) is
\* accepted and every later attribute of that name makes validation fail at that
\* attribute with the already-set message: the scan never goes past a second
\* one, no list with two of them validates, and a value once set is kept.
C1_SecondOccurrenceRejected ==
    /\ \A k \in 1..scanned :
          ~LaterNamed(attrs, k, "description") /\ ~LaterNamed(attrs, k, "unit")
    /\ \A k \in 1..Len(attrs) :
          /\ StoppedAt(k) /\ LaterNamed(attrs, k, "description")
                => FailsAt(attrs_result[1], k, DESCRIPTION_SET_ERROR)
          /\ StoppedAt(k) /\ LaterNamed(attrs, k, "unit")
                => FailsAt(attrs_result[1], k, UNIT_SET_ERROR)
    /\ pc = "done" /\ attrs_result[1].ok
          => \A k \in 1..Len(attrs) :
                ~LaterNamed(attrs, k, "description") /\ ~LaterNamed(attrs, k, "unit")

\* C2: after a scan without error, validation fails with the
\* unit-without-description message exactly when the list has an attribute named
\* unit and none named description, whatever their order; every Metadata
\* produced has a description whenever it has a unit.
C2_UnitRequiresDescription ==
    pc = "done" /\ scanned = Len(attrs)
        => /\ (~attrs_result[1].ok /\ attrs_result[1].msg = UNIT_WITHOUT_DESCRIPTION_ERROR)
                <=> (HasNamed(attrs, "unit") /\ ~HasNamed(attrs, "description"))
           /\ attrs_result[1].ok
                => (is_some(attrs_result[1].v.unit) => is_some(attrs_result[1].v.description))

\* C4: an attribute named none of cfg, doc, description, unit fails validation
\* with FN_ATTR_ERROR at the point of the scan where it is met; the scan never
\* goes past one, no list holding one validates, and the attributes kept
\* verbatim are exactly the cfg attributes, in order.
C4_UnrecognizedAttrRejected ==
    /\ \A k \in 1..scanned : ~Unrecognized(attrs[k])
    /\ \A k \in 1..Len(attrs) :
          StoppedAt(k) /\ Unrecognized(attrs[k])
              => FailsAt(attrs_result[1], k, FN_ATTR_ERROR)
    /\ acc.cfg = SelectSeq(SubSeq(attrs, 1, scanned), LAMBDA a : Named(a, "cfg"))
    /\ pc = "done" /\ attrs_result[1].ok
          => /\ \A k \in 1..Len(attrs) : ~Unrecognized(attrs[k])
             /\ attrs_result[1].v.cfg = SelectSeq(attrs, LAMBDA a : Named(a, "cfg"))

\* a cfg attribute was kept, then an unrecognized attribute stopped the scan
C4_Witness ==
    /\ pc = "done" /\ scanned < Len(attrs) /\ Unrecognized(attrs[scanned + 1])
    /\ acc.cfg # <<>> /\ ~attrs_result[1].ok

\* C12: when validation succeeds the Metadata has a description if and only if
\* the list has an attribute named description, and a unit if and only if it
\* has one named unit, whatever the form of the attribute: none is accepted and
\* then dropped.
C12_NamedAttrIsKept ==
    pc = "done" /\ attrs_result[1].ok =>
        /\ is_some(attrs_result[1].v.description) <=> HasNamed(attrs, "description")
        /\ is_some(attrs_result[1].v.unit) <=> HasNamed(attrs, "unit")

----------------------------------------------------------------------------
(* Properties of one declaration (SpecFn) *)

\* the type is exactly one of the three bare identifiers
BareKind(ty) ==
    /\ ty.kind = "Path" /\ ~ty.leading_colon /\ ~ty.arguments
    /\ ty.segments \in {<<"Counter">>, <<"Gauge">>, <<"Histogram">>}

\* the parse of the declaration got as far as the type after the arrow
ReachedTy(r) == r.ok \/ r.span.part \notin {"attr", "arrow"}

\* the declaration was parsed and expanded
Expanded == pc = "done" /\ is_some(item_fn) /\ item_fn[1].ok

\* the arguments of a macro call: its tokens split at the commas, a trailing
\* comma closing the last argument
RECURSIVE SplitArgs(_, _, _)
SplitArgs(toks, k, cur) ==
    IF k > Len(toks) THEN (IF cur = <<>> THEN <<>> ELSE <<cur>>)
    ELSE IF toks[k] = Punct(",") THEN <<cur>> \o SplitArgs(toks, k + 1, <<>>)
    ELSE SplitArgs(toks, k + 1, Append(cur, toks[k]))

MacroArgs(stmt) == SplitArgs(stmt.tokens, 1, <<>>)

RecordOp(kind) ==
    CASE kind = "Counter" -> "::metrics::counter"
      [] kind = "Gauge" -> "::metrics::gauge"
      [] kind = "Histogram" -> "::metrics::histogram"

DescribeOp(kind) ==
    CASE kind = "Counter" -> "::metrics::describe_counter"
      [] kind = "Gauge" -> "::metrics::describe_gauge"
      [] kind = "Histogram" -> "::metrics::describe_histogram"

ToStringCall(name) ==
    <<Ident(name), Punct("."), Ident("to_string"), Punct("("), Punct(")")>>

\* C3: the return-kind marker is accepted only when it is exactly one of the
\* bare identifiers Counter, Gauge, Histogram, and then as that kind; any other
\* spelling the parse reaches fails with METRIC_KIND_ERROR at the type.
C3_KindIsBareIdentifier ==
    pc # "parse_fn" =>
        LET d == decl[1]
            r == item_fn[1]
        IN  /\ r.ok => BareKind(d.ty) /\ r.v.fn_return_ty = d.ty.segments[1]
            /\ ReachedTy(r) /\ ~BareKind(d.ty)
                 => ~r.ok /\ r.msg = METRIC_KIND_ERROR /\ r.span = Span("ty", 0)
            /\ BareKind(d.ty) => r.msg # METRIC_KIND_ERROR

\* a qualified path ending in Counter was rejected
C3_Witness ==
    /\ pc = "done" /\ ~item_fn[1].ok /\ item_fn[1].msg = METRIC_KIND_ERROR
    /\ decl[1].ty.segments = <<"metrics", "Counter">>

\* C5: with N >= 1 parameters the accessor binds 'labels' to exactly N entries,
\* the i-th being (name of the i-th parameter as a string, that parameter
\* .to_string()), and passes &labels as the second argument of the record
\* operation of the declaration's kind, after the declaration's name.
C5_LabelsMirrorParameters ==
    Expanded /\ Len(decl[1].args) >= 1 =>
        LET d == decl[1]
            body == fn_tokens[1].body
        IN  /\ Len(body) = 2
            /\ body[1].stmt = "let" /\ body[1].name = "labels"
            /\ Len(body[1].elems) = Len(d.args)
            /\ \A i \in 1..Len(d.args) :
                  /\ body[1].elems[i].key = LitStr(d.args[i].ident)
                  /\ body[1].elems[i].value = ToStringCall(d.args[i].ident)
            /\ body[2].stmt = "macro" /\ body[2].name = RecordOp(d.ty.segments[1])
            /\ MacroArgs(body[2]) = << <<LitStr(d.ident)>>, <<Punct("&"), Ident("labels")>> >>

\* two different parameters were turned into two labels
C5_Witness ==
    /\ Expanded /\ Len(decl[1].args) = 2
    /\ decl[1].args[1].ident # decl[1].args[2].ident
    /\ Len(fn_tokens[1].body[1].elems) = 2

\* C6: with no parameters the accessor body is the record call alone, with the
\* declaration's name as its only argument; a labels binding is emitted if and
\* only if there is at least one parameter.
C6_NoLabelsWithoutParameters ==
    Expanded =>
        LET d == decl[1]
            body == fn_tokens[1].body
        IN  /\ (\E i \in 1..Len(body) : body[i].stmt = "let") <=> Len(d.args) > 0
            /\ Len(d.args) = 0
                 => /\ Len(body) = 1
                    /\ body[1].stmt = "macro" /\ body[1].name = RecordOp(d.ty.segments[1])
                    /\ MacroArgs(body[1]) = << <<LitStr(d.ident)>> >>
                    /\ \A k \in 1..Len(body[1].tokens) :
                          body[1].tokens[k] \notin {Punct("&"), Ident("labels"), Punct("[")}

\* a declaration without parameters was expanded
C6_Witness ==
    /\ Expanded /\ Len(decl[1].args) = 0
    /\ Len(fn_tokens[1].body) = 1 /\ fn_tokens[1].ident = decl[1].ident

\* C7: with a description, the description function calls the describe
\* operation of the declaration's kind with (name, description) when there is no
\* unit and with (name, unit, description) when there is one.
C7_DescribeArguments ==
    Expanded /\ is_some(item_fn[1].v.attrs.description) =>
        LET f == item_fn[1].v
            body == fn_tokens[2].body
        IN  /\ Len(body) = 1
            /\ body[1].stmt = "macro" /\ body[1].name = DescribeOp(f.fn_return_ty)
            /\ is_none(f.attrs.unit)
                 => MacroArgs(body[1]) =
                        << <<LitStr(f.ident)>>, <<ExprTokens(f.attrs.description[1])>> >>
            /\ is_some(f.attrs.unit)
                 => MacroArgs(body[1]) =
                        << <<LitStr(f.ident)>>, <<ExprTokens(f.attrs.unit[1])>>,
                           <<ExprTokens(f.attrs.description[1])>> >>

\* a description function with a unit was generated
C7_Witness ==
    /\ Expanded /\ is_some(item_fn[1].v.attrs.unit) /\ Len(fn_tokens) = 2
    /\ Len(MacroArgs(fn_tokens[2].body[1])) = 3

RECURSIVE DocText(_, _)
DocText(as, k) ==
    IF k > Len(as) THEN ""
    ELSE IF Named(as[k], "doc") /\ as[k].form = "NameValue" /\ as[k].lit = "Str"
         THEN as[k].text \o DocText(as, k + 1)
         ELSE DocText(as, k + 1)

----------------------------------------------------------------------------
(* Properties of the macro call (Spec) *)

Invalid(d) == ~ItemFn_parse(d).ok

\* the places of the invalid declarations of the module
InvalidPlaces == { j \in 1..Len(item[1].content) : Invalid(item[1].content[j]) }

FirstInvalid == CHOOSE j \in InvalidPlaces : \A i \in InvalidPlaces : j <= i

\* the accessors of a generated block: the functions with a return type
Accessors(b) == SelectSeq(b.items, LAMBDA f : is_some(f.output))

\* C9: a module of k >= 0 valid declarations yields a block with the module's
\* attributes, visibility and name, whose accessors are exactly k, named as the
\* declarations in source order, duplicates included; for k = 0 the block is
\* empty.
C9_AccessorsInSourceOrder ==
    pc = "done" /\ InvalidPlaces = {} =>
        LET m == item[1]
            b == ret[1].block
        IN  /\ is_none(ret[1].compile_error) /\ is_some(b)
            /\ b[1].attrs = m.attrs /\ b[1].vis = m.vis /\ b[1].ident = m.ident
            /\ Len(Accessors(b[1])) = Len(m.content)
            /\ \A i \in 1..Len(m.content) : Accessors(b[1])[i].ident = m.content[i].ident
            /\ Len(m.content) = 0 => b[1].items = <<>>

\* two declarations of different names were expanded
C9_Witness ==
    /\ pc = "done" /\ is_some(ret[1].block) /\ Len(item[1].content) = 2
    /\ item[1].content[1].ident # item[1].content[2].ident
    /\ Len(Accessors(ret[1].block[1])) = 2

\* C10: when a declaration is invalid the call returns one error and no
\* generated block; the error is that of the earliest invalid declaration, no
\* later declaration is parsed, and nothing of the earlier ones is emitted.
C10_FirstFailureAborts ==
    InvalidPlaces # {} =>
        /\ consumed <= FirstInvalid
        /\ pc = "done"
             => /\ is_none(ret[1].block) /\ is_some(ret[1].compile_error)
                /\ ret[1].compile_error[1].span.fn = FirstInvalid
                /\ ret[1].compile_error[1].msg = ItemFn_parse(item[1].content[FirstInvalid]).msg
                /\ consumed = FirstInvalid /\ Len(fns) = FirstInvalid - 1

\* the second declaration failed after a valid first one
C10_Witness ==
    /\ pc = "done" /\ is_some(ret[1].compile_error) /\ consumed = 2 /\ Len(fns) = 1

\* the names of the functions of a generated block, in output order
FnNames(b) == [i \in 1..Len(b.items) |-> b.items[i].ident]

PairwiseDistinct(names) ==
    \A i, j \in 1..Len(names) : i # j => names[i] # names[j]

\* C13: when the declarations of a successfully parsed module have pairwise
\* distinct names, the functions of the generated block, accessors and
\* description functions together, have pairwise distinct names.
C13_GeneratedNamesDistinct ==
    pc = "done" /\ is_some(ret[1].block)
      /\ PairwiseDistinct([i \in 1..Len(item[1].content) |-> item[1].content[i].ident])
        => PairwiseDistinct(FnNames(ret[1].block[1]))

====
